---- MODULE Spec2Model ----
(***************************************************************************)
(* Real-time crowd-state feed of the Simulation3D component                *)
(* (src/components/3DSimulation.tsx): the seeded snapshot, the WebSocket   *)
(* handlers that replace snapshot fields, and the fallback interval that   *)
(* perturbs heat zones and particles; and the SatelliteGround effect that   *)
(* fetches a grid of map tiles and composites them into the ground texture.*)
(*                                                                         *)
(* Numbers are fixed-point: Unit stands for 1.0.  A JavaScript value is a  *)
(* record [tag, elems]; tag is "undefined", "null", "string" or "array".   *)
(***************************************************************************)
EXTENDS Integers, Sequences, FiniteSets, TLC

VARIABLES
    url,            \* VITE_SIM_WS_URL is configured
    phase,          \* "init" (effect not run), "mounted", "unmounted"
    ws,             \* "null", "connecting", "open", "errored", "closing", "closed"
    timer,          \* the fallback interval is installed
    locations,      \* useState: locations
    heatZones,      \* useState: heatZones
    crowdParticles, \* useState: crowdParticles
    isLive,         \* useState: isLive
    ticks,          \* interval callbacks run so far
    lastEvent,      \* history: the handler that ran last, with its message
    prev,           \* history: the state that handler started from
    sawMalformed,   \* history: a message that failed to parse was received
    held,           \* the arrays a reader took before the last tick, as they are now
    gphase,         \* SatelliteGround: "init", "mounted", "unmounted"
    runs,           \* SatelliteGround: one record per run of the effect
    textureRef,     \* textureRef.current: 0 (null) or the run that made the texture
    meshMap,        \* material.map of the ground mesh: 0 (none) or a texture
    disposed,       \* textures on which dispose() was called
    glast,          \* history: the SatelliteGround step that ran last
    gprev           \* history: textureRef, material.map and disposed before it

cvars == <<url, phase, ws, timer, locations, heatZones, crowdParticles, isLive,
           ticks, lastEvent, prev, sawMalformed, held>>

tvars == <<gphase, runs, textureRef, meshMap, disposed, glast, gprev>>

vars == <<cvars, tvars>>

----------------------------------------------------------------------------
(* Bounds *)

MaxTicks == 3
NumRandSeeds == 3
MaxComposes == 2

----------------------------------------------------------------------------
(* Numbers *)

Unit == 10^5

Min(a, b) == IF a < b THEN a ELSE b

Max(a, b) == IF a > b THEN a ELSE b

Abs(a) == IF a < 0 THEN -a ELSE a

\* Math.random() yields a value in [0, 1); RandomValues samples it in thousandths.
RandScale == 10^3

RandomValues == <<0, 500, 999>>

RandSeeds == 0 .. (NumRandSeeds - 1)

\* The k-th draw (k = 0, 1, ...) of Math.random() when the generator is in state s.
Rand(s, k) == RandomValues[1 + ((s + k + (k \div 2) + (k \div 7)) % Len(RandomValues))]

\* (Math.random() - 0.5) * span, for a draw r
Centered(r, span) == ((r - (RandScale \div 2)) * span) \div RandScale

----------------------------------------------------------------------------
(* JavaScript values *)

Undefined == [tag |-> "undefined", elems |-> <<>>]

Null == [tag |-> "null", elems |-> <<>>]

EmptyString == [tag |-> "string", elems |-> <<>>]

Arr(s) == [tag |-> "array", elems |-> s]

\* ToBoolean: undefined, null and "" are falsy; every array (also []) is truthy.
Truthy(v) == v.tag = "array"

\* prev ?? []
OrEmpty(v) == IF v.tag \in {"undefined", "null"} THEN <<>> ELSE v.elems

----------------------------------------------------------------------------
(* bootstrapDefaults *)

SeedParticleCountOffByOne == 200 - 1

\* Array.from({ length: 200 })
SeedParticleCount == 200

seedLocations ==
    << [position |-> <<-Unit, 0, -Unit>>, label |-> "Ramkund", riskLevel |-> "high"],
       [position |-> <<Unit, 0, -Unit>>, label |-> "Triveni", riskLevel |-> "critical"],
       [position |-> <<0, 0, Unit>>, label |-> "Kalaram", riskLevel |-> "medium"],
       [position |-> <<-(3 * Unit) \div 2, 0, Unit \div 2>>, label |-> "Sita Gufha",
        riskLevel |-> "low"] >>

seedHeat ==
    << [center |-> <<-Unit, 0, -Unit>>, radius |-> (3 * Unit) \div 10,
        intensity |-> (80 * Unit) \div 100],
       [center |-> <<Unit, 0, -Unit>>, radius |-> (4 * Unit) \div 10,
        intensity |-> (95 * Unit) \div 100],
       [center |-> <<0, 0, Unit>>, radius |-> (25 * Unit) \div 100,
        intensity |-> (60 * Unit) \div 100],
       [center |-> <<-(3 * Unit) \div 2, 0, Unit \div 2>>, radius |-> (2 * Unit) \div 10,
        intensity |-> (30 * Unit) \div 100] >>

\* One seeded particle from three draws: x, z and speed.
SeedParticle(rx, rz, rs) ==
    LET x == Centered(rx, 4 * Unit)
        z == Centered(rz, 4 * Unit)
        y == (2 * Unit) \div 100
        intensity == IF Abs(x) + Abs(z) < (3 * Unit) \div 2
                     THEN (8 * Unit) \div 10 ELSE (3 * Unit) \div 10
        color == IF intensity > (6 * Unit) \div 10 THEN "#ef4444" ELSE "#10b981"
    IN  [position |-> <<x, y, z>>, color |-> color,
         speed |-> (rs * 2 * Unit) \div RandScale + Unit]

seedParticles(s) ==
    [i \in 1 .. SeedParticleCount |->
        SeedParticle(Rand(s, 3 * (i - 1)), Rand(s, 3 * (i - 1) + 1), Rand(s, 3 * (i - 1) + 2))]

----------------------------------------------------------------------------
(* Live-feed messages: evt.data *)

MsgLocation == [position |-> <<0, 0, 0>>, label |-> "Gate", riskLevel |-> "low"]

\* {center:[0,0,0], radius:0.1, intensity:2.0}
HotZone == [center |-> <<0, 0, 0>>, radius |-> Unit \div 10, intensity |-> 2 * Unit]

MsgParticle == [position |-> <<0, (2 * Unit) \div 100, 0>>, color |-> "#ef4444", speed |-> Unit]

LocationValues == {Undefined, Null, Arr(<<MsgLocation>>)}

HeatZoneValues == {Undefined, Null, Arr(<<>>), Arr(<<HotZone>>)}

ParticleValues == {Undefined, EmptyString, Arr(<<>>), Arr(<<MsgParticle>>)}

\* A message is text that is not JSON, the JSON text "null", or a JSON object.
Msg(wf, tag, l, h, p) ==
    [wellFormed |-> wf, tag |-> tag, locations |-> l, heatZones |-> h, crowdParticles |-> p]

MalformedMsg == Msg(FALSE, "text", Undefined, Undefined, Undefined)

NullMsg == Msg(TRUE, "null", Undefined, Undefined, Undefined)

NoMsg == Msg(FALSE, "none", Undefined, Undefined, Undefined)

Messages ==
    {MalformedMsg, NullMsg} \cup
    {Msg(TRUE, "object", l, h, p) :
        l \in LocationValues, h \in HeatZoneValues, p \in ParticleValues}

ParseLenient(m) ==
    [ok |-> TRUE,
     data |-> IF m.wellFormed /\ m.tag = "object"
              THEN m ELSE Msg(TRUE, "object", Arr(<<>>), Arr(<<>>), Arr(<<>>))]

\* JSON.parse(evt.data) followed by the property reads: ok is FALSE when the
\* try block throws (a SyntaxError, or a TypeError reading a property of null).
Parse(m) == [ok |-> m.wellFormed /\ m.tag = "object", data |-> m]

ApplyFieldAlways(cur, v) == v

ApplyFieldDefined(cur, v) == IF v.tag # "undefined" THEN v ELSE cur

ApplyFieldClamping(cur, v) ==
    IF Truthy(v)
    THEN Arr([i \in 1 .. Len(v.elems) |->
                IF "intensity" \in DOMAIN v.elems[i]
                THEN [v.elems[i] EXCEPT !.intensity = Max(0, Min(Unit, @))]
                ELSE v.elems[i]])
    ELSE cur

\* if (data.f) setF(data.f)
ApplyField(cur, v) == IF Truthy(v) THEN v ELSE cur

----------------------------------------------------------------------------
(* Fallback interval callback *)

Clamp(lo, hi, v) == Max(lo, Min(hi, v))

TickIntensityNoCeiling(intensity, r) ==
    Max((5 * Unit) \div 100, intensity + Centered(r, Unit \div 10))

\* Math.max(0.05, Math.min(1, z.intensity + (Math.random() - 0.5) * 0.1))
TickIntensity(intensity, r) ==
    Clamp((5 * Unit) \div 100, Unit, intensity + Centered(r, Unit \div 10))

TickCoordNoFloor(x, r) == Min(2 * Unit, x + Centered(r, (2 * Unit) \div 100))

\* Math.max(-2, Math.min(2, x + (Math.random() - 0.5) * 0.02))
TickCoord(x, r) == Clamp(-2 * Unit, 2 * Unit, x + Centered(r, (2 * Unit) \div 100))

TickHeatZonesAlwaysArray(old, s, base) ==
    LET zones == OrEmpty(old)
    IN  Arr([i \in 1 .. Len(zones) |->
                [zones[i] EXCEPT !.intensity = TickIntensity(@, Rand(s, base + i - 1))]])

\* setHeatZones updater; the zones take the draws base, base + 1, ...
TickHeatZones(old, s, base) ==
    LET zones == OrEmpty(old)
        arr == [i \in 1 .. Len(zones) |->
                    [zones[i] EXCEPT
                        !.intensity = TickIntensity(@, Rand(s, base + i - 1))]]
    IN  IF Len(arr) > 0 THEN Arr(arr) ELSE old

TickParticlesAllAxes(old, s, base) ==
    LET parts == OrEmpty(old)
        arr == [i \in 1 .. Len(parts) |->
                    [parts[i] EXCEPT
                        !.position =
                            <<TickCoord(@[1], Rand(s, base + 2 * (i - 1))),
                              TickCoord(@[2], Rand(s, base + 2 * (i - 1))),
                              TickCoord(@[3], Rand(s, base + 2 * (i - 1) + 1))>>]]
    IN  IF Len(arr) > 0 THEN Arr(arr) ELSE old

\* setCrowdParticles updater; each particle takes two draws, x then z.
TickParticles(old, s, base) ==
    LET parts == OrEmpty(old)
        arr == [i \in 1 .. Len(parts) |->
                    [parts[i] EXCEPT
                        !.position =
                            <<TickCoord(@[1], Rand(s, base + 2 * (i - 1))),
                              @[2],
                              TickCoord(@[3], Rand(s, base + 2 * (i - 1) + 1))>>]]
    IN  IF Len(arr) > 0 THEN Arr(arr) ELSE old

----------------------------------------------------------------------------
(* SatelliteGround: the tile compositor effect *)

TileRadii == {0, 1}

\* count * count tiles, count = tilesRadius * 2 + 1
TileCount(tilesRadius) == (tilesRadius * 2 + 1) * (tilesRadius * 2 + 1)

PromiseAllSettled(loaded, failed, count) ==
    IF loaded + failed < count THEN "awaiting" ELSE "resolved"

\* await Promise.all(promises): rejects with the first tile that fails,
\* resolves when every tile has loaded.
PromiseAll(loaded, failed, count) ==
    IF failed > 0 THEN "rejected" ELSE IF loaded = count THEN "resolved" ELSE "awaiting"

ResumeOutcomeUnchecked(settled, isCancelled) ==
    IF settled = "rejected" THEN "failed" ELSE "applied"

\* load() after the await: catch on rejection, return if (isCancelled), else composite.
ResumeOutcome(settled, isCancelled) ==
    IF settled = "rejected" THEN "failed"
    ELSE IF isCancelled THEN "discarded" ELSE "applied"

DisposedAfterCleanupLeak(ref, disp) == disp

\* if (textureRef.current) textureRef.current.dispose()
DisposedAfterCleanup(ref, disp) == IF ref # 0 THEN disp \cup {ref} ELSE disp

GroundSnap == [textureRef |-> textureRef, meshMap |-> meshMap, disposed |-> disposed]

GroundEvent(type, g) == [type |-> type, run |-> g]

GroundInit ==
    /\ gphase = "init"
    /\ runs = <<>>
    /\ textureRef = 0
    /\ meshMap = 0
    /\ disposed = {}
    /\ glast = GroundEvent("none", 0)
    /\ gprev = [textureRef |-> 0, meshMap |-> 0, disposed |-> {}]

\* The latest run returned a cleanup function (it did not return at if (!ctx)).
HasCleanup == Len(runs) > 0 /\ runs[Len(runs)].st # "noctx"

\* The runs after the cleanup of the latest one: isCancelled = true
RunsAfterCleanup ==
    IF HasCleanup THEN [runs EXCEPT ![Len(runs)].isCancelled = TRUE] ELSE runs

\* The effect body, on mount and on every change of its dependencies; React
\* runs the cleanup of the previous run first.  ctxOk: canvas.getContext('2d')
\* returned a context.
Compose(tilesRadius, ctxOk) ==
    /\ gphase \in {"init", "mounted"}
    /\ Len(runs) < MaxComposes
    /\ gphase' = "mounted"
    /\ disposed' = IF HasCleanup THEN DisposedAfterCleanup(textureRef, disposed) ELSE disposed
    /\ textureRef' = IF HasCleanup THEN 0 ELSE textureRef
    /\ runs' = Append(RunsAfterCleanup,
                      [tilesRadius |-> tilesRadius,
                       isCancelled |-> FALSE,
                       loaded |-> 0,
                       failed |-> 0,
                       drawn |-> 0,
                       mapAtStart |-> meshMap,
                       st |-> IF ctxOk THEN "awaiting" ELSE "noctx"])
    /\ glast' = GroundEvent("compose", Len(runs) + 1)
    /\ gprev' = GroundSnap
    /\ UNCHANGED meshMap
    /\ UNCHANGED cvars

\* img.onload of one tile of run g
TileLoaded(g) ==
    /\ g \in 1 .. Len(runs)
    /\ runs[g].st = "awaiting"
    /\ LET count == TileCount(runs[g].tilesRadius) IN
        /\ runs[g].loaded + runs[g].failed < count
        /\ runs' = [runs EXCEPT ![g].loaded = @ + 1,
                                ![g].st = PromiseAll(runs[g].loaded + 1, runs[g].failed, count)]
    /\ glast' = GroundEvent("loaded", g)
    /\ gprev' = GroundSnap
    /\ UNCHANGED <<gphase, textureRef, meshMap, disposed>>
    /\ UNCHANGED cvars

\* img.onerror of one tile of run g
TileFailed(g) ==
    /\ g \in 1 .. Len(runs)
    /\ runs[g].st = "awaiting"
    /\ LET count == TileCount(runs[g].tilesRadius) IN
        /\ runs[g].loaded + runs[g].failed < count
        /\ runs' = [runs EXCEPT ![g].failed = @ + 1,
                                ![g].st = PromiseAll(runs[g].loaded, runs[g].failed + 1, count)]
    /\ glast' = GroundEvent("failed", g)
    /\ gprev' = GroundSnap
    /\ UNCHANGED <<gphase, textureRef, meshMap, disposed>>
    /\ UNCHANGED cvars

\* load() of run g resumes after the await.
LoadResume(g) ==
    /\ g \in 1 .. Len(runs)
    /\ runs[g].st \in {"resolved", "rejected"}
    /\ LET outcome == ResumeOutcome(runs[g].st, runs[g].isCancelled) IN
        /\ runs' = [runs EXCEPT
                        ![g].st = outcome,
                        ![g].drawn = IF outcome = "applied"
                                     THEN TileCount(runs[g].tilesRadius) ELSE @]
        /\ textureRef' = IF outcome = "applied" THEN g ELSE textureRef
        /\ meshMap' = IF outcome = "applied" /\ gphase = "mounted" THEN g ELSE meshMap
    /\ glast' = GroundEvent("resume", g)
    /\ gprev' = GroundSnap
    /\ UNCHANGED <<gphase, disposed>>
    /\ UNCHANGED cvars

\* Unmount of SatelliteGround: the cleanup of the latest run; meshRef.current is null after.
GroundUnmount ==
    /\ gphase = "mounted"
    /\ gphase' = "unmounted"
    /\ runs' = RunsAfterCleanup
    /\ disposed' = IF HasCleanup THEN DisposedAfterCleanup(textureRef, disposed) ELSE disposed
    /\ textureRef' = IF HasCleanup THEN 0 ELSE textureRef
    /\ glast' = GroundEvent("unmount", Len(runs))
    /\ gprev' = GroundSnap
    /\ UNCHANGED meshMap
    /\ UNCHANGED cvars

----------------------------------------------------------------------------
(* State *)

IsLiveInitTrue == TRUE

\* useState(false)
IsLiveInit == FALSE

Snap == [locations |-> locations, heatZones |-> heatZones,
         crowdParticles |-> crowdParticles, isLive |-> isLive, ws |-> ws,
         phase |-> phase]

Event(type, m) == [type |-> type, msg |-> m]

seeded == phase # "init"

status == IF isLive THEN "live" ELSE IF seeded THEN "simulated" ELSE "uninitialized"

StatusOf(p, live) ==
    IF live THEN "live" ELSE IF p # "init" THEN "simulated" ELSE "uninitialized"

Init ==
    /\ url \in BOOLEAN
    /\ phase = "init"
    /\ ws = "null"
    /\ timer = FALSE
    /\ locations = Undefined
    /\ heatZones = Undefined
    /\ crowdParticles = Undefined
    /\ isLive = IsLiveInit
    /\ ticks = 0
    /\ lastEvent = Event("none", NoMsg)
    /\ prev = [locations |-> Undefined, heatZones |-> Undefined,
               crowdParticles |-> Undefined, isLive |-> IsLiveInit, ws |-> "null",
               phase |-> "init"]
    /\ sawMalformed = FALSE
    /\ held = [heatZones |-> Undefined, crowdParticles |-> Undefined]
    /\ GroundInit

----------------------------------------------------------------------------
(* The effect body, the handlers it installs, and its cleanup *)

InstallsTimerAlways(u) == TRUE

\* if (!url) timer = window.setInterval(...)
InstallsTimer(u) == ~u

\* useEffect body: bootstrapDefaults(), then the socket or the interval.
\* throws: new WebSocket(url) throws, so ws stays null and the catch runs.
Mount ==
    /\ phase = "init"
    /\ \E s \in RandSeeds, throws \in BOOLEAN :
        /\ (~url) => ~throws
        /\ locations' = Arr(seedLocations)
        /\ heatZones' = Arr(seedHeat)
        /\ crowdParticles' = Arr(seedParticles(s))
        /\ ws' = IF url /\ ~throws THEN "connecting" ELSE "null"
        /\ isLive' = IF url /\ throws THEN FALSE ELSE isLive
        /\ timer' = InstallsTimer(url)
    /\ phase' = "mounted"
    /\ lastEvent' = Event("seed", NoMsg)
    /\ prev' = Snap
    /\ UNCHANGED <<held, url, ticks, sawMalformed>>
    /\ UNCHANGED tvars

\* A setter called after the component has unmounted changes nothing.
SetIsLive(v) == isLive' = IF phase = "mounted" THEN v ELSE isLive

\* ws.onopen = () => setIsLive(true)
OnOpen ==
    /\ ws = "connecting"
    /\ ws' = "open"
    /\ SetIsLive(TRUE)
    /\ lastEvent' = Event("open", NoMsg)
    /\ prev' = Snap
    /\ UNCHANGED <<held, url, phase, timer, locations, heatZones, crowdParticles, ticks,
                   sawMalformed>>
    /\ UNCHANGED tvars

\* ws.onerror = () => setIsLive(false)
OnError ==
    /\ ws \in {"connecting", "open"}
    /\ ws' = "errored"
    /\ SetIsLive(FALSE)
    /\ lastEvent' = Event("error", NoMsg)
    /\ prev' = Snap
    /\ UNCHANGED <<held, url, phase, timer, locations, heatZones, crowdParticles, ticks,
                   sawMalformed>>
    /\ UNCHANGED tvars

OnCloseReconnecting ==
    /\ ws \in {"connecting", "open", "errored", "closing"}
    /\ ws' = IF phase = "mounted" THEN "connecting" ELSE "closed"
    /\ SetIsLive(FALSE)
    /\ lastEvent' = Event("close", NoMsg)
    /\ prev' = Snap
    /\ UNCHANGED <<held, url, phase, timer, locations, heatZones, crowdParticles, ticks,
                   sawMalformed>>
    /\ UNCHANGED tvars

OnCloseClearing ==
    /\ ws \in {"connecting", "open", "errored", "closing"}
    /\ ws' = "closed"
    /\ SetIsLive(FALSE)
    /\ locations' = Arr(<<>>)
    /\ heatZones' = Arr(<<>>)
    /\ crowdParticles' = Arr(<<>>)
    /\ lastEvent' = Event("close", NoMsg)
    /\ prev' = Snap
    /\ UNCHANGED <<held, url, phase, timer, ticks, sawMalformed>>
    /\ UNCHANGED tvars

\* ws.onclose = () => setIsLive(false)
OnClose ==
    /\ ws \in {"connecting", "open", "errored", "closing"}
    /\ ws' = "closed"
    /\ SetIsLive(FALSE)
    /\ lastEvent' = Event("close", NoMsg)
    /\ prev' = Snap
    /\ UNCHANGED <<held, url, phase, timer, locations, heatZones, crowdParticles, ticks,
                   sawMalformed>>
    /\ UNCHANGED tvars

OnMessageOnlyLive(m) ==
    /\ ws \in {"open", "errored"}
    /\ phase = "mounted"
    /\ LET parsed == Parse(m) IN
        IF parsed.ok /\ isLive
        THEN /\ locations' = ApplyField(locations, parsed.data.locations)
             /\ heatZones' = ApplyField(heatZones, parsed.data.heatZones)
             /\ crowdParticles' = ApplyField(crowdParticles, parsed.data.crowdParticles)
        ELSE UNCHANGED <<locations, heatZones, crowdParticles>>
    /\ sawMalformed' = (sawMalformed \/ ~m.wellFormed)
    /\ lastEvent' = Event("message", m)
    /\ prev' = Snap
    /\ UNCHANGED <<held, url, phase, ws, timer, isLive, ticks>>
    /\ UNCHANGED tvars

\* ws.onmessage: a message event is dispatched only before close() is called.
OnMessage(m) ==
    /\ ws \in {"open", "errored"}
    /\ phase = "mounted"
    /\ LET parsed == Parse(m) IN
        IF parsed.ok
        THEN /\ locations' = ApplyField(locations, parsed.data.locations)
             /\ heatZones' = ApplyField(heatZones, parsed.data.heatZones)
             /\ crowdParticles' = ApplyField(crowdParticles, parsed.data.crowdParticles)
        ELSE UNCHANGED <<locations, heatZones, crowdParticles>>
    /\ sawMalformed' = (sawMalformed \/ ~m.wellFormed)
    /\ lastEvent' = Event("message", m)
    /\ prev' = Snap
    /\ UNCHANGED <<held, url, phase, ws, timer, isLive, ticks>>
    /\ UNCHANGED tvars

HeldAfterTickInPlace(old, new) == new

\* map() and the object spreads build new arrays and elements: the array a
\* reader took before the tick keeps its contents.
HeldAfterTick(old, new) == old

\* The setInterval callback: both updaters run on the previous state.
Tick ==
    /\ timer
    /\ ticks < MaxTicks
    /\ \E s \in RandSeeds :
        /\ heatZones' = TickHeatZones(heatZones, s, 0)
        /\ crowdParticles' = TickParticles(crowdParticles, s, Len(OrEmpty(heatZones)))
    /\ ticks' = ticks + 1
    /\ lastEvent' = Event("tick", NoMsg)
    /\ prev' = Snap
    /\ held' = [heatZones |-> HeldAfterTick(heatZones, heatZones'),
                crowdParticles |-> HeldAfterTick(crowdParticles, crowdParticles')]
    /\ UNCHANGED <<url, phase, ws, timer, locations, isLive, sawMalformed>>
    /\ UNCHANGED tvars

UnmountKeepsTimer ==
    /\ phase = "mounted"
    /\ phase' = "unmounted"
    /\ ws' = IF ws \in {"connecting", "open", "errored"} THEN "closing" ELSE ws
    /\ lastEvent' = Event("unmount", NoMsg)
    /\ prev' = Snap
    /\ UNCHANGED <<held, url, timer, locations, heatZones, crowdParticles, isLive, ticks,
                   sawMalformed>>
    /\ UNCHANGED tvars

\* Effect cleanup: if (ws) ws.close(); if (timer) window.clearInterval(timer)
Unmount ==
    /\ phase = "mounted"
    /\ phase' = "unmounted"
    /\ ws' = IF ws \in {"connecting", "open", "errored"} THEN "closing" ELSE ws
    /\ timer' = FALSE
    /\ lastEvent' = Event("unmount", NoMsg)
    /\ prev' = Snap
    /\ UNCHANGED <<held, url, locations, heatZones, crowdParticles, isLive, ticks, sawMalformed>>
    /\ UNCHANGED tvars

Next ==
    \/ Mount
    \/ OnOpen
    \/ OnError
    \/ OnClose
    \/ \E m \in Messages : OnMessage(m)
    \/ Tick
    \/ Unmount

Spec == Init /\ [][Next]_vars

\* The browser runs a due interval callback.
FairSpec == Spec /\ WF_vars(Tick)

----------------------------------------------------------------------------
(* The interval callback on arbitrary starting snapshots *)

TickIntensities == {-Unit, 0, (5 * Unit) \div 100, Unit, 2 * Unit}

TickCoords == {-3 * Unit, -2 * Unit, 0, 2 * Unit, 3 * Unit}

ZoneAt(i) == [center |-> <<0, 0, 0>>, radius |-> Unit \div 10, intensity |-> i]

ParticleAt(x, z) ==
    [position |-> <<x, (2 * Unit) \div 100, z>>, color |-> "#10b981", speed |-> Unit]

TickStartHeat ==
    {Undefined, Arr(<<>>)} \cup {Arr(<<ZoneAt(i)>>) : i \in TickIntensities}
        \cup {Arr(<<ZoneAt(i), ZoneAt(j)>>) : i, j \in TickIntensities}

TickStartParticles ==
    {Undefined, Arr(<<>>)} \cup {Arr(<<ParticleAt(x, z)>>) : x, z \in TickCoords}

TickInit ==
    /\ url = FALSE
    /\ phase = "mounted"
    /\ ws = "null"
    /\ timer = InstallsTimer(url)
    /\ locations = Arr(seedLocations)
    /\ heatZones \in TickStartHeat
    /\ crowdParticles \in TickStartParticles
    /\ isLive = IsLiveInit
    /\ ticks = 0
    /\ lastEvent = Event("none", NoMsg)
    /\ prev = Snap
    /\ sawMalformed = FALSE
    /\ held = [heatZones |-> heatZones, crowdParticles |-> crowdParticles]
    /\ GroundInit

TickNext == Tick

TickSpec == TickInit /\ [][TickNext]_vars

----------------------------------------------------------------------------
(* SatelliteGround on its own *)

GroundStart ==
    /\ url = FALSE
    /\ phase = "init"
    /\ ws = "null"
    /\ timer = FALSE
    /\ locations = Undefined
    /\ heatZones = Undefined
    /\ crowdParticles = Undefined
    /\ isLive = IsLiveInit
    /\ ticks = 0
    /\ lastEvent = Event("none", NoMsg)
    /\ prev = Snap
    /\ sawMalformed = FALSE
    /\ held = [heatZones |-> Undefined, crowdParticles |-> Undefined]
    /\ GroundInit

GroundNext ==
    \/ \E tilesRadius \in TileRadii, ctxOk \in BOOLEAN : Compose(tilesRadius, ctxOk)
    \/ \E g \in 1 .. MaxComposes : TileLoaded(g)
    \/ \E g \in 1 .. MaxComposes : TileFailed(g)
    \/ \E g \in 1 .. MaxComposes : LoadResume(g)
    \/ GroundUnmount

GroundSpec == GroundStart /\ [][GroundNext]_vars

----------------------------------------------------------------------------
(* Properties *)

prevStatus == StatusOf(prev.phase, prev.isLive)

SnapshotUnchanged ==
    /\ locations = prev.locations
    /\ heatZones = prev.heatZones
    /\ crowdParticles = prev.crowdParticles

\* C1: after seeding, in every period in which status is not live a fallback
\* tick is eventually run (under fairness of the timer), until teardown.
C1_FallbackDrivesWhenNotLive ==
    \A n \in 0 .. (MaxTicks - 1) :
        (phase = "mounted" /\ ~isLive /\ ticks = n)
            ~> (ticks > n \/ isLive \/ phase = "unmounted")

\* C2: no fallback tick runs in a state whose status is live, and the interval
\* and the live connection never exist together.
C2_NoTickWhileLive ==
    /\ lastEvent.type = "tick" => (prevStatus # "live" /\ status # "live")
    /\ timer => (ws = "null" /\ ~isLive)

C2_Witness ==
    /\ lastEvent.type = "tick"
    /\ prevStatus = "simulated"
    /\ heatZones # prev.heatZones
    /\ crowdParticles # prev.crowdParticles

AllowedTransitions ==
    { <<"uninitialized", "simulated">>, <<"simulated", "live">>, <<"live", "simulated">> }

\* C3: status changes only along uninitialized->simulated, simulated->live and
\* live->simulated, and is never live while the snapshot is unseeded.
C3_StatusTransitions ==
    /\ status # prevStatus => <<prevStatus, status>> \in AllowedTransitions
    /\ status = "live" => seeded

C3_Witness ==
    /\ lastEvent.type = "close"
    /\ prevStatus = "live"
    /\ status = "simulated"

WellFormedMessage == lastEvent.type = "message" /\ lastEvent.msg.wellFormed

\* C4: every field a successfully parsed message omits keeps its pre-message value.
C4_OmittedFieldsKept ==
    WellFormedMessage =>
        /\ lastEvent.msg.locations = Undefined => locations = prev.locations
        /\ lastEvent.msg.heatZones = Undefined => heatZones = prev.heatZones
        /\ lastEvent.msg.crowdParticles = Undefined => crowdParticles = prev.crowdParticles

C4_Witness ==
    /\ WellFormedMessage
    /\ lastEvent.msg.locations = Undefined
    /\ lastEvent.msg.crowdParticles = Undefined
    /\ lastEvent.msg.heatZones = Arr(<<>>)
    /\ heatZones # prev.heatZones
    /\ locations = prev.locations /\ locations.tag = "array"
    /\ crowdParticles = prev.crowdParticles /\ crowdParticles.tag = "array"

HotZoneOnly == Msg(TRUE, "object", Undefined, Arr(<<HotZone>>), Undefined)

\* C5: a field a message provides as an array replaces the stored field wholesale,
\* unmerged and unclamped; heatZones of one zone with intensity 2.0 is stored as is
\* and leaves locations and particles alone.
C5_ProvidedFieldsReplace ==
    /\ (WellFormedMessage /\ lastEvent.msg.tag = "object") =>
        /\ lastEvent.msg.locations.tag = "array" => locations = lastEvent.msg.locations
        /\ lastEvent.msg.heatZones.tag = "array" => heatZones = lastEvent.msg.heatZones
        /\ lastEvent.msg.crowdParticles.tag = "array" =>
                crowdParticles = lastEvent.msg.crowdParticles
    /\ (lastEvent.type = "message" /\ lastEvent.msg = HotZoneOnly) =>
        /\ Len(heatZones.elems) = 1
        /\ heatZones.elems[1].intensity = 2 * Unit
        /\ locations = prev.locations
        /\ crowdParticles = prev.crowdParticles

C5_Witness ==
    /\ lastEvent.type = "message"
    /\ lastEvent.msg = HotZoneOnly
    /\ Len(prev.heatZones.elems) = 4
    /\ heatZones = Arr(<<HotZone>>)

ZoneIntensities(v) == {OrEmpty(v)[i].intensity : i \in 1 .. Len(OrEmpty(v))}

ParticleCoords(v) ==
    {OrEmpty(v)[i].position[1] : i \in 1 .. Len(OrEmpty(v))}
        \cup {OrEmpty(v)[i].position[3] : i \in 1 .. Len(OrEmpty(v))}

\* C6: after every fallback tick, whatever snapshot it started from, each heat
\* zone's intensity is in [0.05, 1.0] and each particle's x and z are in [-2, 2].
C6_TickKeepsBounds ==
    lastEvent.type = "tick" =>
        /\ \A i \in ZoneIntensities(heatZones) : (5 * Unit) \div 100 <= i /\ i <= Unit
        /\ \A c \in ParticleCoords(crowdParticles) : -2 * Unit <= c /\ c <= 2 * Unit

C6_Witness ==
    /\ lastEvent.type = "tick"
    /\ ticks >= 2
    /\ ZoneIntensities(prev.heatZones) = {Unit}
    /\ ZoneIntensities(heatZones) = {Unit, Unit - (5 * Unit) \div 100}
    /\ \E c \in ParticleCoords(crowdParticles) : c = -2 * Unit

InUnitInterval(v) == \A i \in ZoneIntensities(v) : 0 <= i /\ i <= Unit

\* C7: in every reachable snapshot every heat zone's intensity lies in [0, 1].
C7_IntensityInUnitInterval == InUnitInterval(heatZones)

\* C7 (amended): intensities leave [0, 1] only by a live message that supplies
\* the heat zones, which are stored as given; seed and ticks keep them in [0, 1].
C7_IntensityLeavesOnlyByMessage ==
    (InUnitInterval(prev.heatZones) /\ ~InUnitInterval(heatZones)) =>
        /\ lastEvent.type = "message"
        /\ heatZones = lastEvent.msg.heatZones

C7_Witness ==
    /\ lastEvent.type = "tick"
    /\ Unit \in ZoneIntensities(heatZones)
    /\ Unit \notin ZoneIntensities(prev.heatZones)

\* C8: a message that fails to parse changes neither the snapshot nor the status
\* and leaves the connection as it was; well-formed messages after it are applied.
C8_MalformedDiscarded ==
    /\ (lastEvent.type = "message" /\ ~lastEvent.msg.wellFormed) =>
        /\ SnapshotUnchanged
        /\ isLive = prev.isLive
        /\ ws = prev.ws
    /\ (sawMalformed /\ WellFormedMessage /\ lastEvent.msg.tag = "object") =>
        /\ lastEvent.msg.locations.tag = "array" => locations = lastEvent.msg.locations
        /\ lastEvent.msg.heatZones.tag = "array" => heatZones = lastEvent.msg.heatZones
        /\ lastEvent.msg.crowdParticles.tag = "array" =>
                crowdParticles = lastEvent.msg.crowdParticles

C8_DiscardReached ==
    /\ lastEvent.type = "message"
    /\ lastEvent.msg = MalformedMsg
    /\ ws = "open"
    /\ isLive
    /\ locations = Arr(<<MsgLocation>>)

C8_Witness ==
    /\ sawMalformed
    /\ WellFormedMessage
    /\ lastEvent.msg.heatZones = Arr(<<HotZone>>)
    /\ heatZones # prev.heatZones

\* C9: an open, error or close event leaves locations, heatZones and particles
\* as they were; on a mounted view open makes status live, and error and close
\* make it simulated.
C9_ConnectionEventsKeepSnapshot ==
    /\ lastEvent.type \in {"open", "error", "close"} => SnapshotUnchanged
    /\ lastEvent.type = "open" => (prevStatus = "simulated" /\ status = "live")
    /\ (lastEvent.type \in {"error", "close"} /\ phase = "mounted") => status = "simulated"

C9_Witness ==
    /\ lastEvent.type = "close"
    /\ prev.ws = "open"
    /\ prevStatus = "live"
    /\ status = "simulated"
    /\ locations = Arr(seedLocations)
    /\ heatZones = Arr(seedHeat)
    /\ Len(crowdParticles.elems) = SeedParticleCount

\* C10: once seeded, none of locations, heatZones and particles is null or
\* undefined, also after messages that carry null or empty values.
C10_NeverNull ==
    seeded =>
        /\ locations.tag \notin {"undefined", "null"}
        /\ heatZones.tag \notin {"undefined", "null"}
        /\ crowdParticles.tag \notin {"undefined", "null"}

C10_Witness ==
    /\ WellFormedMessage
    /\ lastEvent.msg.locations = Null
    /\ lastEvent.msg.heatZones = Null
    /\ lastEvent.msg.crowdParticles = EmptyString
    /\ locations.tag = "array"
    /\ heatZones.tag = "array"
    /\ crowdParticles.tag = "array"

\* C11: seeding once yields exactly 4 locations, 4 heat zones and 200 particles,
\* with status simulated.
C11_SeedCounts ==
    lastEvent.type = "seed" =>
        /\ locations.tag = "array" /\ Len(locations.elems) = 4
        /\ heatZones.tag = "array" /\ Len(heatZones.elems) = 4
        /\ crowdParticles.tag = "array" /\ Len(crowdParticles.elems) = 200
        /\ status = "simulated"

C11_Witness ==
    /\ lastEvent.type = "seed"
    /\ prevStatus = "uninitialized"
    /\ prev.crowdParticles = Undefined
    /\ Len(crowdParticles.elems) = 200
    /\ Cardinality({crowdParticles.elems[i].color : i \in 1 .. 200}) = 2

LatestRun == Len(runs)

\* C12: a compose that was superseded or whose consumer unmounted never applies
\* its result: it draws nothing and changes neither textureRef nor the mesh's
\* map, and the map only ever changes to the texture of the latest, live compose.
C12_StaleComposeDiscarded ==
    /\ (glast.type = "resume" /\ runs[glast.run].isCancelled) =>
        /\ meshMap = gprev.meshMap
        /\ textureRef = gprev.textureRef
        /\ runs[glast.run].drawn = 0
    /\ meshMap # gprev.meshMap =>
        /\ meshMap = LatestRun
        /\ ~runs[meshMap].isCancelled
        /\ gphase = "mounted"

C12_Witness ==
    /\ glast.type = "resume"
    /\ glast.run < LatestRun
    /\ runs[glast.run].isCancelled
    /\ runs[glast.run].st = "discarded"
    /\ runs[glast.run].loaded = 9
    /\ runs[LatestRun].st = "applied"
    /\ meshMap = LatestRun

\* C13: tiles are drawn and a texture is made only when all (2*tilesRadius+1)^2
\* tile requests of the compose have loaded; a compose with a failed tile draws
\* nothing and creates and applies no texture.
C13_AllOrNothing ==
    \A g \in 1 .. Len(runs) :
        LET n == (2 * runs[g].tilesRadius + 1) * (2 * runs[g].tilesRadius + 1) IN
            /\ (runs[g].drawn > 0 \/ runs[g].st = "applied" \/ textureRef = g \/ meshMap = g) =>
                /\ runs[g].loaded = n
                /\ runs[g].failed = 0
                /\ runs[g].drawn = n
            /\ runs[g].failed > 0 =>
                /\ runs[g].drawn = 0
                /\ runs[g].st \notin {"applied", "resolved"}
                /\ textureRef # g
                /\ meshMap # g

C13_Witness ==
    /\ Len(runs) = 2
    /\ runs[1].tilesRadius = 1 /\ runs[1].loaded = 8 /\ runs[1].failed = 1
    /\ runs[1].st = "failed"
    /\ runs[2].tilesRadius = 1 /\ runs[2].loaded = 9 /\ runs[2].drawn = 9
    /\ meshMap = 2

FailedResume == glast.type = "resume" /\ runs[glast.run].st = "failed"

\* C14: when a compose fails on a tile fetch, the texture that was on the mesh
\* before that compose began is still on the mesh and has not been disposed.
C14_FailedComposeKeepsTexture ==
    FailedResume =>
        /\ meshMap = runs[glast.run].mapAtStart
        /\ meshMap \notin disposed

\* C14 (amended): a failing compose changes neither the mesh's map nor
\* textureRef, disposes and draws nothing; if it is not superseded the mesh still
\* carries the map it had when the compose began, a texture (if any) that the
\* cleanup before the compose has already disposed.
C14_FailedComposeChangesNothing ==
    FailedResume =>
        /\ meshMap = gprev.meshMap
        /\ textureRef = gprev.textureRef
        /\ disposed = gprev.disposed
        /\ runs[glast.run].drawn = 0
        /\ ~runs[glast.run].isCancelled =>
            /\ meshMap = runs[glast.run].mapAtStart
            /\ meshMap # 0 => meshMap \in disposed

C14_Witness ==
    /\ FailedResume
    /\ ~runs[glast.run].isCancelled
    /\ meshMap # 0
    /\ meshMap = runs[glast.run].mapAtStart
    /\ meshMap \in disposed

\* C15: teardown releases the interval and the connection, and no event after
\* teardown changes locations, heatZones, particles or status.
C15_TeardownReleases ==
    /\ phase = "unmounted" => (~timer /\ ws \in {"null", "closing", "closed"})
    /\ prev.phase = "unmounted" => (SnapshotUnchanged /\ isLive = prev.isLive)

C15_Witness ==
    /\ prev.phase = "unmounted"
    /\ lastEvent.type = "close"
    /\ prev.ws = "closing"
    /\ ws = "closed"

\* C17: a parsed message is applied whatever the status: one delivered when the
\* status is already simulated still replaces the fields it provides.
C17_AppliedRegardlessOfStatus ==
    (WellFormedMessage /\ lastEvent.msg.tag = "object" /\ prevStatus = "simulated") =>
        /\ lastEvent.msg.locations.tag = "array" => locations = lastEvent.msg.locations
        /\ lastEvent.msg.heatZones.tag = "array" => heatZones = lastEvent.msg.heatZones
        /\ lastEvent.msg.crowdParticles.tag = "array" =>
                crowdParticles = lastEvent.msg.crowdParticles

C17_Witness ==
    /\ WellFormedMessage
    /\ prev.ws = "errored"
    /\ prevStatus = "simulated"
    /\ lastEvent.msg.locations = Arr(<<MsgLocation>>)
    /\ lastEvent.msg.crowdParticles = Arr(<<MsgParticle>>)
    /\ locations = Arr(<<MsgLocation>>) /\ prev.locations = Arr(seedLocations)
    /\ crowdParticles = Arr(<<MsgParticle>>)

EmptyOrUnset(v) == v.tag \in {"undefined", "null"} \/ v = Arr(<<>>)

\* C18: a tick on an empty or unset heat-zone list (particle list) leaves that
\* field exactly as it was.
C18_TickOnEmptyIsNoOp ==
    lastEvent.type = "tick" =>
        /\ EmptyOrUnset(prev.heatZones) => heatZones = prev.heatZones
        /\ EmptyOrUnset(prev.crowdParticles) => crowdParticles = prev.crowdParticles

C18_Witness ==
    /\ lastEvent.type = "tick"
    /\ prev.heatZones = Undefined /\ heatZones = Undefined
    /\ prev.crowdParticles = Arr(<<>>) /\ crowdParticles = Arr(<<>>)

\* C19: a tick changes only each zone's intensity and each particle's x and z:
\* the number and order of zones and particles, each zone's center and radius,
\* each particle's y, color and speed and the locations are kept, and the arrays
\* held from before the tick are not changed.
C19_TickFrame ==
    lastEvent.type = "tick" =>
        LET oz == OrEmpty(prev.heatZones)
            nz == OrEmpty(heatZones)
            op == OrEmpty(prev.crowdParticles)
            np == OrEmpty(crowdParticles)
        IN  /\ locations = prev.locations
            /\ Len(nz) = Len(oz)
            /\ \A i \in 1 .. Len(oz) :
                    [nz[i] EXCEPT !.intensity = oz[i].intensity] = oz[i]
            /\ Len(np) = Len(op)
            /\ \A i \in 1 .. Len(op) :
                    /\ np[i].position[2] = op[i].position[2]
                    /\ [np[i] EXCEPT !.position = op[i].position] = op[i]
            /\ held.heatZones = prev.heatZones
            /\ held.crowdParticles = prev.crowdParticles

C19_Witness ==
    /\ lastEvent.type = "tick"
    /\ ticks = 2
    /\ Len(heatZones.elems) = 4
    /\ \A i \in 1 .. 4 : heatZones.elems[i].intensity # prev.heatZones.elems[i].intensity
    /\ crowdParticles.elems[1].position # prev.crowdParticles.elems[1].position
    /\ Cardinality({crowdParticles.elems[i].color : i \in 1 .. SeedParticleCount}) = 2

LiveLost == prevStatus = "live" /\ status = "simulated"

\* C20: a connection is created only by the effect on mount, never again, and
\* once status has gone from live to simulated it is never live again.
C20_LiveAtMostOnce ==
    /\ [](ws = "connecting" => (lastEvent.type = "seed" /\ prev.ws = "null"))
    /\ [](LiveLost => [](status # "live"))

C20_Witness ==
    /\ lastEvent.type = "error"
    /\ LiveLost
    /\ phase = "mounted"
    /\ ws = "errored"

====
